---- MODULE Spec2Model ----
(***************************************************************************)
(* Model of data/templates/dependencies.py: the dependency checker.        *)
(*                                                                         *)
(* Python strings are sequences of one-character strings; Python values    *)
(* are records tagged with their kind.  A function that can raise returns  *)
(* a record whose field exc names the exception ("" when it returned).     *)
(***************************************************************************)
EXTENDS Integers, Sequences, FiniteSets, TLC

VARIABLES entry, pc, args, items, index, check_result, out, calls, last

vars == <<entry, pc, args, items, index, check_result, out, calls, last>>

-----------------------------------------------------------------------------
(* Bounds of the model.                                                    *)

\* Longest version string a module reports when _CheckPythonModule is
\* called on its own.
MaxVerLen == 3

\* Largest number of entries of PYTHON_DEPENDENCIES in a CheckDependencies run.
MaxModules == 2

-----------------------------------------------------------------------------
(* Python values.                                                          *)

None == [kind |-> "None"]

StrValue(s) == [kind |-> "str", s |-> s]

IntValue(n) == [kind |-> "int", n |-> n]

\* A zero-argument callable and the value it returns.
Function(r) == [kind |-> "function", ret |-> r]

\* A module object and its attributes (a function from names to values).
ModuleObject(attrs) == [kind |-> "module", attrs |-> attrs]

\* type(None), what getattr(None, '__class__', None) evaluates to.
NoneType == [kind |-> "type", of |-> "None"]

NoAttrs == [n \in {} |-> None]

\* Python truth value: None, '' and 0 are false, every other value here true.
Truthy(x) ==
  CASE x.kind = "None" -> FALSE
    [] x.kind = "str" -> x.s # <<>>
    [] x.kind = "int" -> x.n # 0
    [] OTHER -> TRUE

\* The attribute names every object has, None included, among the names of
\* the model.
ObjectAttrs == { <<"_", "_", "c", "l", "a", "s", "s", "_", "_">> }

\* getattr(obj, name, None)
GetAttr(obj, name) ==
  CASE obj.kind = "module" /\ name \in DOMAIN obj.attrs -> obj.attrs[name]
    [] name \in ObjectAttrs ->
         IF obj.kind = "None" THEN NoneType ELSE [kind |-> "type"]
    [] OTHER -> None

-----------------------------------------------------------------------------
(* Strings.                                                                *)

Digits == {"0", "1", "2", "3", "4", "5", "6", "7", "8", "9"}

DigitValue(c) ==
  CASE c = "0" -> 0 [] c = "1" -> 1 [] c = "2" -> 2 [] c = "3" -> 3
    [] c = "4" -> 4 [] c = "5" -> 5 [] c = "6" -> 6 [] c = "7" -> 7
    [] c = "8" -> 8 [] c = "9" -> 9

DigitChar(d) ==
  CASE d = 0 -> "0" [] d = 1 -> "1" [] d = 2 -> "2" [] d = 3 -> "3"
    [] d = 4 -> "4" [] d = 5 -> "5" [] d = 6 -> "6" [] d = 7 -> "7"
    [] d = 8 -> "8" [] d = 9 -> "9"

\* The code point of a character: what Python's string comparison compares.
Ord(c) ==
  CASE c = "(" -> 40 [] c = ")" -> 41 [] c = "-" -> 45 [] c = "." -> 46
    [] c \in Digits -> 48 + DigitValue(c)
    [] c = "_" -> 95 [] c = "a" -> 97 [] c = "b" -> 98 [] c = "c" -> 99
    [] c = "d" -> 100 [] c = "e" -> 101 [] c = "f" -> 102 [] c = "i" -> 105
    [] c = "l" -> 108 [] c = "n" -> 110 [] c = "o" -> 111 [] c = "p" -> 112
    [] c = "q" -> 113 [] c = "r" -> 114 [] c = "s" -> 115 [] c = "t" -> 116
    [] c = "v" -> 118 [] c = "y" -> 121

\* s < t for two Python strings.
RECURSIVE StrLess(_, _)
StrLess(s, t) ==
  IF t = <<>> THEN FALSE
  ELSE IF s = <<>> THEN TRUE
  ELSE IF Head(s) # Head(t) THEN Ord(Head(s)) < Ord(Head(t))
  ELSE StrLess(Tail(s), Tail(t))

\* re.split / str.split on single-character separators: the tokens between
\* the separators, empty ones included.
RECURSIVE Split(_, _)
Split(s, seps) ==
  IF s = <<>> THEN << <<>> >>
  ELSE LET rest == Split(Tail(s), seps)
       IN IF Head(s) \in seps
          THEN << <<>> >> \o rest
          ELSE << <<Head(s)>> \o Head(rest) >> \o Tail(rest)

\* s.endswith(suffix)
EndsWith(s, suffix) ==
  /\ Len(s) >= Len(suffix)
  /\ SubSeq(s, Len(s) - Len(suffix) + 1, Len(s)) = suffix

\* The decimal digits of a non-negative integer.
RECURSIVE IntToStr(_)
IntToStr(n) ==
  IF n < 10 THEN <<DigitChar(n)>>
  ELSE IntToStr(n \div 10) \o <<DigitChar(n % 10)>>

\* '{0!s}'.format(value) for the values a version attribute holds.
Format(value) ==
  CASE value.kind = "str" -> value.s
    [] value.kind = "int" -> IntToStr(value.n)
    [] OTHER -> <<"<", value.kind, ">">>

-----------------------------------------------------------------------------
(* Version strings.                                                        *)

\* _VERSION_SPLIT_REGEX = re.compile(r'\.|\-')
_VERSION_SPLIT_REGEX == {".", "-"}

\* The value of a string of decimal digits.
RECURSIVE DigitsValue(_)
DigitsValue(token) ==
  IF token = <<>> THEN 0
  ELSE 10 * DigitsValue(SubSeq(token, 1, Len(token) - 1))
       + DigitValue(token[Len(token)])

\* int(token): ValueError for the empty token and for a token with a
\* character that is no digit.
IntOf(token) ==
  IF token # <<>> /\ \A i \in 1..Len(token) : token[i] \in Digits
  THEN [exc |-> "", value |-> DigitsValue(token)]
  ELSE [exc |-> "ValueError", value |-> 0]

\* The mutation of VersionMap that reads a token that is no integer as 0
\* instead of raising.
VersionMapLenient(version) ==
  LET tokens == Split(version, _VERSION_SPLIT_REGEX)
  IN [exc |-> "",
      value |-> [i \in 1..Len(tokens) |->
                   IF IntOf(tokens[i]).exc # "" THEN 0
                   ELSE IntOf(tokens[i]).value]]

\* list(map(int, _VERSION_SPLIT_REGEX.split(version)))
VersionMap(version) ==
  LET tokens == Split(version, _VERSION_SPLIT_REGEX)
  IN IF \E i \in 1..Len(tokens) : IntOf(tokens[i]).exc # ""
     THEN [exc |-> "ValueError", value |-> <<>>]
     ELSE [exc |-> "", value |-> [i \in 1..Len(tokens) |-> IntOf(tokens[i]).value]]

\* The mutation of ListLess that compares with <= .
RECURSIVE ListLessOrEqual(_, _)
ListLessOrEqual(a, b) ==
  IF a = <<>> THEN TRUE
  ELSE IF b = <<>> THEN FALSE
  ELSE IF Head(a) # Head(b) THEN Head(a) < Head(b)
  ELSE ListLessOrEqual(Tail(a), Tail(b))

\* a < b for two Python lists of integers.
RECURSIVE ListLess(_, _)
ListLess(a, b) ==
  IF b = <<>> THEN FALSE
  ELSE IF a = <<>> THEN TRUE
  ELSE IF Head(a) # Head(b) THEN Head(a) < Head(b)
  ELSE ListLess(Tail(a), Tail(b))

-----------------------------------------------------------------------------
(* _ImportPythonModule.  The environment sys maps a module name to what    *)
(* __import__ does for it: [exc |-> "ImportError"], another exception      *)
(* raised while the module loads, or [exc |-> "", module |-> top-level     *)
(* module object].                                                         *)

\* __import__(module_name): the empty name is a ValueError whatever is
\* installed.
Import(module_name, sys) ==
  IF module_name = <<>> THEN [exc |-> "ValueError", module |-> None]
  ELSE sys[module_name]

\* for submodule_name in names: module_object = getattr(module_object, ...)
RECURSIVE GetAttrChain(_, _)
GetAttrChain(module_object, names) ==
  IF names = <<>> THEN module_object
  ELSE GetAttrChain(GetAttr(module_object, Head(names)), Tail(names))

\* The mutation of _ImportPythonModule without the except clause.
_ImportPythonModuleUncaught(module_name, sys) ==
  LET imported == Import(module_name, sys)
  IN IF imported.exc # "" THEN [exc |-> imported.exc, value |-> None]
     ELSE IF \E i \in 1..Len(module_name) : module_name[i] = "."
     THEN [exc |-> "",
           value |-> GetAttrChain(imported.module,
                                  Tail(Split(module_name, {"."})))]
     ELSE [exc |-> "", value |-> imported.module]

_ImportPythonModule(module_name, sys) ==
  LET imported == Import(module_name, sys)
  IN IF imported.exc = "ImportError" THEN [exc |-> "", value |-> None]
     ELSE IF imported.exc # "" THEN [exc |-> imported.exc, value |-> None]
     ELSE IF \E i \in 1..Len(module_name) : module_name[i] = "."
     THEN [exc |-> "",
           value |-> GetAttrChain(imported.module,
                                  Tail(Split(module_name, {"."})))]
     ELSE [exc |-> "", value |-> imported.module]

-----------------------------------------------------------------------------
(* What a call of _CheckPythonModule or _CheckSQLite3 did: the exception   *)
(* it raised ("" when it returned), the boolean it returned, the return    *)
(* path taken, the lines printed, and a log of the names handed to         *)
(* _ImportPythonModule (probed), the version attributes read (extracted)   *)
(* and the strings handed to the integer conversion (parsed).              *)

Line(tag, text, module_name) ==
  [tag |-> tag, text |-> text, module |-> module_name]

Log(probed, extracted, parsed) ==
  [probed |-> probed, extracted |-> extracted, parsed |-> parsed]

Return(ret, status, lines, log) ==
  [exc |-> "", ret |-> ret, status |-> status, lines |-> lines,
   probed |-> log.probed, extracted |-> log.extracted, parsed |-> log.parsed]

Raise(exc, log) ==
  [exc |-> exc, ret |-> FALSE, status |-> "NONE", lines |-> <<>>,
   probed |-> log.probed, extracted |-> log.extracted, parsed |-> log.parsed]

\* The mutation of VerboseLines that prints whatever verbose_output is.
VerboseLinesAlways(verbose_output, line) == <<line>>

\* if verbose_output: print(line)  (lines 53-54, 96-97, 145-146)
VerboseLines(verbose_output, line) ==
  IF verbose_output THEN <<line>> ELSE <<>>

\* The mutation of MissingOutcome that fails for an optional module too.
MissingOutcomeRequired(module_name, is_required, log) ==
  Return(FALSE, "FAILURE_MISSING",
         <<Line("FAILURE", "missing", module_name)>>, log)

\* The mutation of MissingOutcome that returns False for an optional module
\* after printing its [OPTIONAL] line.
MissingOutcomeFalse(module_name, is_required, log) ==
  IF ~is_required
  THEN Return(FALSE, "OPTIONAL_MISSING",
              <<Line("OPTIONAL", "missing", module_name)>>, log)
  ELSE Return(FALSE, "FAILURE_MISSING",
              <<Line("FAILURE", "missing", module_name)>>, log)

\* Lines 45-50: the module is missing.
MissingOutcome(module_name, is_required, log) ==
  IF ~is_required
  THEN Return(TRUE, "OPTIONAL_MISSING",
              <<Line("OPTIONAL", "missing", module_name)>>, log)
  ELSE Return(FALSE, "FAILURE_MISSING",
              <<Line("FAILURE", "missing", module_name)>>, log)

\* Lines 57-63: the version read through the attribute or the method.
ExtractVersion(module_object, version_attribute_name) ==
  IF ~EndsWith(version_attribute_name, <<"(", ")">>)
  THEN [exc |-> "", value |-> GetAttr(module_object, version_attribute_name)]
  ELSE LET version_method ==
             GetAttr(module_object,
                     SubSeq(version_attribute_name, 1,
                            Len(version_attribute_name) - 2))
       IN IF ~Truthy(version_method) THEN [exc |-> "", value |-> None]
          ELSE IF version_method.kind = "function"
          THEN [exc |-> "", value |-> version_method.ret]
          ELSE [exc |-> "TypeError", value |-> None]

\* Lines 81-99: the comparison against the bounds, once the module version
\* and the minimum version are integer lists.
CompareVersion(module_name, module_version_map, minimum_version_map, maximum_version, verbose_output, log) ==
  IF ListLess(module_version_map, minimum_version_map)
  THEN Return(FALSE, "FAILURE_VERSION_TOO_OLD",
              <<Line("FAILURE", "too old", module_name)>>, log)
  ELSE IF Truthy(maximum_version)
  THEN LET maximum_version_map == VersionMap(maximum_version.s)
           log_max == Log(log.probed, log.extracted,
                          log.parsed \o <<maximum_version.s>>)
       IN IF maximum_version_map.exc # ""
          THEN Raise(maximum_version_map.exc, log_max)
          ELSE IF ListLess(maximum_version_map.value, module_version_map)
          THEN Return(FALSE, "FAILURE_VERSION_TOO_NEW",
                      <<Line("FAILURE", "too recent", module_name)>>, log_max)
          ELSE Return(TRUE, "OK_WITH_VERSION",
                      VerboseLines(verbose_output,
                                   Line("OK", "version", module_name)),
                      log_max)
  ELSE Return(TRUE, "OK_WITH_VERSION",
              VerboseLines(verbose_output, Line("OK", "version", module_name)),
              log)

\* Lines 71-79: the module version as a string, then both strings as
\* integer lists; the module version is converted first.
ParseAndCompare(module_name, version_value, minimum_version, maximum_version, verbose_output, log) ==
  LET module_version == Format(version_value)
      module_version_map == VersionMap(module_version)
      minimum_version_map == VersionMap(minimum_version.s)
  IN IF module_version_map.exc # ""
     THEN Raise(module_version_map.exc,
                Log(log.probed, log.extracted, <<module_version>>))
     ELSE IF minimum_version_map.exc # ""
     THEN Raise(minimum_version_map.exc,
                Log(log.probed, log.extracted,
                    <<module_version, minimum_version.s>>))
     ELSE CompareVersion(module_name, module_version_map.value,
                         minimum_version_map.value, maximum_version,
                         verbose_output,
                         Log(log.probed, log.extracted,
                             <<module_version, minimum_version.s>>))

_CheckPythonModule(module_name, version_attribute_name, minimum_version, is_required, maximum_version, verbose_output, sys) ==
  LET imported == _ImportPythonModule(module_name, sys)
      module_object == imported.value
      log == Log(<<module_name>>, <<>>, <<>>)
  IN
  IF imported.exc # "" THEN Raise(imported.exc, log)
  ELSE IF ~Truthy(module_object)
  THEN MissingOutcome(module_name, is_required, log)
  ELSE IF ~Truthy(version_attribute_name) \/ ~Truthy(minimum_version)
  THEN Return(TRUE, "OK",
              VerboseLines(verbose_output, Line("OK", "present", module_name)),
              log)
  ELSE LET extracted == ExtractVersion(module_object, version_attribute_name.s)
           log_version == Log(log.probed, <<version_attribute_name.s>>, <<>>)
       IN IF extracted.exc # "" THEN Raise(extracted.exc, log_version)
          ELSE IF ~Truthy(extracted.value)
          THEN Return(FALSE, "FAILURE_VERSION_UNDETERMINED",
                      <<Line("FAILURE", "unable to determine version",
                             module_name)>>, log_version)
          ELSE ParseAndCompare(module_name, extracted.value, minimum_version,
                               maximum_version, verbose_output, log_version)

-----------------------------------------------------------------------------
(* _CheckSQLite3                                                           *)

pysqlite2_dbapi2 ==
  <<"p", "y", "s", "q", "l", "i", "t", "e", "2", ".",
    "d", "b", "a", "p", "i", "2">>

sqlite3 == <<"s", "q", "l", "i", "t", "e", "3">>

sqlite_version ==
  <<"s", "q", "l", "i", "t", "e", "_", "v", "e", "r", "s", "i", "o", "n">>

\* minimum_version = '3.7.8'
SQLiteMinimumVersion == <<"3", ".", "7", ".", "8">>

\* Lines 128-148, for the module object the second import returned.  The
\* version is not formatted here: splitting a value that is no string is a
\* TypeError.
CheckSQLiteVersion(module_name, module_object, verbose_output, probed) ==
  LET module_version == GetAttr(module_object, sqlite_version)
      log == Log(probed, <<sqlite_version>>, <<>>)
  IN
  IF ~Truthy(module_version)
  THEN Return(FALSE, "FAILURE_VERSION_UNDETERMINED", <<>>, log)
  ELSE IF module_version.kind # "str" THEN Raise("TypeError", log)
  ELSE LET module_version_map == VersionMap(module_version.s)
           minimum_version_map == VersionMap(SQLiteMinimumVersion)
           log_parsed == Log(probed, <<sqlite_version>>,
                             <<module_version.s, SQLiteMinimumVersion>>)
       IN IF module_version_map.exc # ""
          THEN Raise(module_version_map.exc,
                     Log(probed, <<sqlite_version>>, <<module_version.s>>))
          ELSE IF ListLess(module_version_map.value, minimum_version_map.value)
          THEN Return(FALSE, "FAILURE_VERSION_TOO_OLD",
                      <<Line("FAILURE", "too old", module_name)>>, log_parsed)
          ELSE Return(TRUE, "OK_WITH_VERSION",
                      VerboseLines(verbose_output,
                                   Line("OK", "version", module_name)),
                      log_parsed)

\* The mutation of _CheckSQLite3 that imports sqlite3 second whatever the
\* first import returned.
_CheckSQLite3Both(verbose_output, sys) ==
  LET first == _ImportPythonModule(pysqlite2_dbapi2, sys)
  IN
  IF first.exc # "" THEN Raise(first.exc, Log(<<pysqlite2_dbapi2>>, <<>>, <<>>))
  ELSE LET second == _ImportPythonModule(sqlite3, sys)
           probed == <<pysqlite2_dbapi2, sqlite3>>
       IN IF second.exc # "" THEN Raise(second.exc, Log(probed, <<>>, <<>>))
          ELSE IF ~Truthy(second.value)
          THEN Return(FALSE, "FAILURE_MISSING",
                      <<Line("FAILURE", "missing", sqlite3)>>,
                      Log(probed, <<>>, <<>>))
          ELSE CheckSQLiteVersion(sqlite3, second.value, verbose_output,
                                  probed)

_CheckSQLite3(verbose_output, sys) ==
  LET first == _ImportPythonModule(pysqlite2_dbapi2, sys)
  IN
  IF first.exc # "" THEN Raise(first.exc, Log(<<pysqlite2_dbapi2>>, <<>>, <<>>))
  ELSE LET module_name == IF ~Truthy(first.value)
                          THEN sqlite3 ELSE pysqlite2_dbapi2
           second == _ImportPythonModule(module_name, sys)
           probed == <<pysqlite2_dbapi2, module_name>>
       IN IF second.exc # "" THEN Raise(second.exc, Log(probed, <<>>, <<>>))
          ELSE IF ~Truthy(second.value)
          THEN Return(FALSE, "FAILURE_MISSING",
                      <<Line("FAILURE", "missing", module_name)>>,
                      Log(probed, <<>>, <<>>))
          ELSE CheckSQLiteVersion(module_name, second.value, verbose_output,
                                  probed)

-----------------------------------------------------------------------------
(* sorted(PYTHON_DEPENDENCIES.items()): the keys are unique, so the items  *)
(* are ordered by the module names alone.                                  *)

\* The mutation of Insert that orders the names descending.
RECURSIVE InsertDescending(_, _)
InsertDescending(name, sorted) ==
  IF sorted = <<>> THEN <<name>>
  ELSE IF StrLess(Head(sorted), name) THEN <<name>> \o sorted
  ELSE <<Head(sorted)>> \o InsertDescending(name, Tail(sorted))

\* The sequence with name inserted before the first element it is less than.
RECURSIVE Insert(_, _)
Insert(name, sorted) ==
  IF sorted = <<>> THEN <<name>>
  ELSE IF StrLess(name, Head(sorted)) THEN <<name>> \o sorted
  ELSE <<Head(sorted)>> \o Insert(name, Tail(sorted))

RECURSIVE Sorted(_)
Sorted(names) ==
  IF names = {} THEN <<>>
  ELSE LET name == CHOOSE n \in names : TRUE
       IN Insert(name, Sorted(names \ {name}))

-----------------------------------------------------------------------------
(* The inputs: module names, requirement tuples and environments.          *)

\* All strings over chars of length at most n.
StringsUpTo(chars, n) == UNION { [1..k -> chars] : k \in 0..n }

VersionChars == {"1", "2", ".", "-", "a"}

\* The version strings a module reports when _CheckPythonModule is called
\* on its own.
VersionStrings == StringsUpTo(VersionChars, MaxVerLen)

\* version_attribute_name: none, an attribute, a method.
VersionAttributeNames ==
  { StrValue(<<>>), StrValue(<<"v">>), StrValue(<<"f", "(", ")">>) }

MinimumVersions ==
  { StrValue(<<>>), StrValue(<<"2">>), StrValue(<<"1", ".", "2">>),
    StrValue(<<"1", "1">>), StrValue(<<"1", ".", "a">>) }

MaximumVersions ==
  { None, StrValue(<<>>), StrValue(<<"2">>), StrValue(<<"1", ".", "2">>),
    StrValue(<<"a">>) }

\* The module objects with at most one attribute: the version attribute v
\* holding a string of versions or an integer, or the method f returning
\* None or a string; and the mismatches, v a method and f a string.
LeafModules(versions) ==
  {ModuleObject(NoAttrs)}
  \cup { ModuleObject(<<"v">> :> StrValue(s)) : s \in versions }
  \cup { ModuleObject(<<"v">> :> IntValue(n)) : n \in {0, 12} }
  \cup { ModuleObject(<<"f">> :> Function(r)) :
           r \in {None, StrValue(<<"1", ".", "2">>), StrValue(<<"1", "-">>)} }
  \cup { ModuleObject(<<"v">> :> Function(None)),
         ModuleObject(<<"f">> :> StrValue(<<"1", ".", "2">>)) }

\* The top-level module objects for a dotted name whose components after
\* the first are names: every prefix of the chain of submodules may be
\* all there is, and a complete chain ends in one of leaves.
RECURSIVE ModuleTrees(_, _)
ModuleTrees(names, leaves) ==
  IF names = <<>> THEN leaves
  ELSE {ModuleObject(NoAttrs)}
       \cup { ModuleObject(Head(names) :> sub) :
                sub \in ModuleTrees(Tail(names), leaves) }

\* What __import__ may do for module_name.
ImportOutcomes(module_name, leaves) ==
  { [exc |-> "ImportError", module |-> None],
    [exc |-> "RuntimeError", module |-> None] }
  \cup { [exc |-> "", module |-> top] :
           top \in ModuleTrees(Tail(Split(module_name, {"."})), leaves) }

\* The keys of PYTHON_DEPENDENCIES.
ModuleNames == { <<"b">>, <<"a", "b">>, <<"a", ".", "b">> }

\* The version strings and requirement tuples of a CheckDependencies run.
RunVersions ==
  { <<>>, <<"1">>, <<"1", ".", "2">>, <<"3">>, <<"a">> }

RunLeafModules ==
  { ModuleObject(NoAttrs),
    ModuleObject(<<"f">> :> Function(None)),
    ModuleObject(<<"f">> :> Function(StrValue(<<"1", ".", "2">>))) }
  \cup { ModuleObject(<<"v">> :> StrValue(s)) : s \in RunVersions }

\* (version_attribute_name, minimum_version, maximum_version, is_required)
VersionTuples ==
  VersionAttributeNames
  \X { StrValue(<<>>), StrValue(<<"1", ".", "2">>) }
  \X { None, StrValue(<<"2">>), StrValue(<<"a">>) }
  \X BOOLEAN

SQLiteVersions ==
  { <<"3", ".", "7", ".", "8">>, <<"3", ".", "7", ".", "7">>,
    <<"3", ".", "1", "0", ".", "0">>, <<"3", ".", "a">> }

SQLiteLeafModules ==
  { ModuleObject(NoAttrs), ModuleObject(sqlite_version :> IntValue(3)) }
  \cup { ModuleObject(sqlite_version :> StrValue(s)) : s \in SQLiteVersions }

\* The environments of a _CheckSQLite3 call: what importing each of the two
\* candidates does.
SQLiteEnvironments ==
  { (pysqlite2_dbapi2 :> first) @@ (sqlite3 :> second) :
      first \in ImportOutcomes(pysqlite2_dbapi2, SQLiteLeafModules),
      second \in ImportOutcomes(sqlite3, SQLiteLeafModules) }

\* The names _ImportPythonModule is called with on its own.
ImportNames ==
  { <<>>, <<"a">>, <<"a", ".", "b">>, <<"a", ".", "b", ".", "c">>,
    <<"a", ".", "b", ".", "_", "_", "c", "l", "a", "s", "s", "_", "_">> }

\* The name _CheckPythonModule is called with on its own.
CheckedName == <<"a", ".", "b">>

-----------------------------------------------------------------------------
(* The state: the function called (entry), its arguments and environment   *)
(* (args), the position in it (pc), the sorted items and the number of     *)
(* them done, check_result, the lines printed (out), a summary of each     *)
(* _CheckPythonModule and _CheckSQLite3 call made by CheckDependencies     *)
(* (calls), and the latest call in full (last).                            *)

NoCall == [fn |-> "none"]

Header == Line("", "Checking availability and versions of dependencies.", <<>>)

Summary == Line("OK", "", <<>>)

Blank == Line("", "", <<>>)

InitCheckDependencies ==
  /\ entry = "CheckDependencies"
  /\ \E verbose_output \in BOOLEAN :
       \E PYTHON_DEPENDENCIES \in SUBSET ModuleNames :
         /\ Cardinality(PYTHON_DEPENDENCIES) <= MaxModules
         /\ args = [verbose_output |-> verbose_output,
                    PYTHON_DEPENDENCIES |-> PYTHON_DEPENDENCIES]

InitCheckPythonModule ==
  /\ entry = "_CheckPythonModule"
  /\ \E version_attribute_name \in VersionAttributeNames :
       \E minimum_version \in MinimumVersions :
         \E maximum_version \in MaximumVersions :
           \E is_required \in BOOLEAN, verbose_output \in BOOLEAN :
             \E imported \in ImportOutcomes(CheckedName,
                                            LeafModules(VersionStrings)) :
               args = [module_name |-> CheckedName,
                       version_attribute_name |-> version_attribute_name,
                       minimum_version |-> minimum_version,
                       is_required |-> is_required,
                       maximum_version |-> maximum_version,
                       verbose_output |-> verbose_output,
                       sys |-> (CheckedName :> imported)]

InitCheckSQLite3 ==
  /\ entry = "_CheckSQLite3"
  /\ \E verbose_output \in BOOLEAN, sys \in SQLiteEnvironments :
       args = [verbose_output |-> verbose_output, sys |-> sys]

InitImportPythonModule ==
  /\ entry = "_ImportPythonModule"
  /\ \E module_name \in ImportNames :
       \E imported \in ImportOutcomes(module_name, {ModuleObject(NoAttrs)}) :
         args = [module_name |-> module_name,
                 sys |-> (module_name :> imported)]

Init ==
  /\ \/ InitCheckDependencies
     \/ InitCheckPythonModule
     \/ InitCheckSQLite3
     \/ InitImportPythonModule
  /\ pc = "start"
  /\ items = <<>>
  /\ index = 0
  /\ check_result = TRUE
  /\ out = <<>>
  /\ calls = <<>>
  /\ last = NoCall

\* The record of a call: what it did, with the function and its inputs.
Called(fn, inputs, result) == [fn |-> fn, inputs |-> inputs] @@ result

\* The summary of a call in calls.
Summarised(call) ==
  [fn |-> call.fn, module_name |-> call.inputs.module_name,
   is_required |-> call.inputs.is_required,
   status |-> call.status, exc |-> call.exc, ret |-> call.ret]

\* A call of _ImportPythonModule on its own.
ImportPythonModule ==
  /\ entry = "_ImportPythonModule" /\ pc = "start"
  /\ LET result == _ImportPythonModule(args.module_name, args.sys)
     IN /\ last' = Called("_ImportPythonModule", args, result)
        /\ pc' = IF result.exc # "" THEN "raised" ELSE "done"
  /\ UNCHANGED <<entry, args, items, index, check_result, out, calls>>

\* A call of _CheckPythonModule on its own.
CheckPythonModule ==
  /\ entry = "_CheckPythonModule" /\ pc = "start"
  /\ LET result == _CheckPythonModule(
                     args.module_name, args.version_attribute_name,
                     args.minimum_version, args.is_required,
                     args.maximum_version, args.verbose_output, args.sys)
     IN /\ last' = Called("_CheckPythonModule", args, result)
        /\ out' = out \o result.lines
        /\ pc' = IF result.exc # "" THEN "raised" ELSE "done"
  /\ UNCHANGED <<entry, args, items, index, check_result, calls>>

\* A call of _CheckSQLite3 on its own.
CheckSQLite3 ==
  /\ entry = "_CheckSQLite3" /\ pc = "start"
  /\ LET result == _CheckSQLite3(args.verbose_output, args.sys)
     IN /\ last' = Called("_CheckSQLite3", args, result)
        /\ out' = out \o result.lines
        /\ pc' = IF result.exc # "" THEN "raised" ELSE "done"
  /\ UNCHANGED <<entry, args, items, index, check_result, calls>>

\* CheckDependencies, lines 182-185: the header, the accumulator and the
\* sorted items.
CheckDependenciesStart ==
  /\ entry = "CheckDependencies" /\ pc = "start"
  /\ out' = out \o <<Header>>
  /\ check_result' = TRUE
  /\ items' = Sorted(args.PYTHON_DEPENDENCIES)
  /\ index' = 0
  /\ pc' = "loop"
  /\ UNCHANGED <<entry, args, calls, last>>

\* The mutation of Accumulate that keeps the latest result only.
AccumulateLast(result, ret) == ret

\* The accumulator after a check that returned ret (lines 186-190, 192-193).
Accumulate(result, ret) == IF ~ret THEN FALSE ELSE result

\* The calls of _CheckPythonModule that CheckDependencies can make for an
\* item: one for every version tuple of the item and everything importing
\* its module may do.  Of the inputs the record keeps the module name and
\* is_required.
CheckPythonModuleCalls ==
  [module_name \in ModuleNames, verbose_output \in BOOLEAN |->
    { Called("_CheckPythonModule",
             [module_name |-> module_name, is_required |-> version_tuple[4]],
             _CheckPythonModule(
               module_name, version_tuple[1], version_tuple[2],
               version_tuple[4], version_tuple[3], verbose_output,
               module_name :> imported)) :
        version_tuple \in VersionTuples,
        imported \in ImportOutcomes(module_name, RunLeafModules) }]

\* The calls of _CheckSQLite3 that CheckDependencies can make, one for every
\* environment.  The database engine is always required.
CheckSQLite3Calls ==
  [verbose_output \in BOOLEAN |->
    { Called("_CheckSQLite3",
             [module_name |-> sqlite3, is_required |-> TRUE],
             _CheckSQLite3(verbose_output, sys)) :
        sys \in SQLiteEnvironments }]

\* CheckDependencies, lines 185-190: one iteration of the loop, for the
\* version tuple of the item and the environment the call meets.
CheckDependenciesLoop ==
  /\ entry = "CheckDependencies" /\ pc = "loop" /\ index < Len(items)
  /\ \E call \in CheckPythonModuleCalls[items[index + 1], args.verbose_output] :
       /\ last' = call
       /\ calls' = Append(calls, Summarised(call))
       /\ out' = out \o call.lines
       /\ IF call.exc # ""
          THEN /\ pc' = "raised"
               /\ UNCHANGED <<index, check_result>>
          ELSE /\ pc' = "loop"
               /\ index' = index + 1
               /\ check_result' = Accumulate(check_result, call.ret)
  /\ UNCHANGED <<entry, args, items>>

\* CheckDependencies, lines 192-193: the SQLite check, after the loop.
CheckDependenciesSQLite3 ==
  /\ entry = "CheckDependencies" /\ pc = "loop" /\ index = Len(items)
  /\ \E call \in CheckSQLite3Calls[args.verbose_output] :
       /\ last' = call
       /\ calls' = Append(calls, Summarised(call))
       /\ out' = out \o call.lines
       /\ IF call.exc # ""
          THEN /\ pc' = "raised"
               /\ UNCHANGED check_result
          ELSE /\ pc' = "summary"
               /\ check_result' = Accumulate(check_result, call.ret)
  /\ UNCHANGED <<entry, args, items, index>>

\* CheckDependencies, lines 195-199: the summary, the blank line, the return.
CheckDependenciesReturn ==
  /\ entry = "CheckDependencies" /\ pc = "summary"
  /\ out' = out \o (IF check_result /\ ~args.verbose_output
                    THEN <<Summary>> ELSE <<>>) \o <<Blank>>
  /\ pc' = "done"
  /\ UNCHANGED <<entry, args, items, index, check_result, calls, last>>

Next ==
  \/ ImportPythonModule
  \/ CheckPythonModule
  \/ CheckSQLite3
  \/ CheckDependenciesStart
  \/ CheckDependenciesLoop
  \/ CheckDependenciesSQLite3
  \/ CheckDependenciesReturn

Spec == Init /\ [][Next]_vars

-----------------------------------------------------------------------------
(* Vocabulary of the properties.                                           *)

FailureStatuses ==
  { "FAILURE_MISSING", "FAILURE_VERSION_UNDETERMINED",
    "FAILURE_VERSION_TOO_OLD", "FAILURE_VERSION_TOO_NEW" }

SuccessStatuses == { "OK", "OK_WITH_VERSION", "OPTIONAL_MISSING" }

\* CheckDependencies has returned check_result.
Returned == entry = "CheckDependencies" /\ pc = "done"

\* last is a call of _CheckPythonModule or _CheckSQLite3.
LastIsCheck == last.fn \in {"_CheckPythonModule", "_CheckSQLite3"}

\* calls[i] returned a failure outcome.
Failed(i) == calls[i].exc = "" /\ calls[i].status \in FailureStatuses

\* A version string read independently of the code: the fields between
\* consecutive separators, each a decimal number.
Separators(s) == { i \in 1..Len(s) : s[i] \in {".", "-"} }

Boundaries(s) == Separators(s) \cup {0, Len(s) + 1}

\* The k-th boundary in ascending order, from k = 0.
Boundary(s, k) ==
  CHOOSE b \in Boundaries(s) :
    Cardinality({ c \in Boundaries(s) : c < b }) = k

NumFields(s) == Cardinality(Separators(s)) + 1

Field(s, k) == SubSeq(s, Boundary(s, k - 1) + 1, Boundary(s, k) - 1)

IsInteger(field) ==
  field # <<>> /\ \A i \in 1..Len(field) : field[i] \in Digits

\* Every field of s is an integer.
IntegerDotted(s) == \A k \in 1..NumFields(s) : IsInteger(Field(s, k))

RECURSIVE Pow10(_)
Pow10(n) == IF n = 0 THEN 1 ELSE 10 * Pow10(n - 1)

\* The digits field[i..] weighted by their place.
RECURSIVE PlaceSum(_, _)
PlaceSum(field, i) ==
  IF i > Len(field) THEN 0
  ELSE DigitValue(field[i]) * Pow10(Len(field) - i) + PlaceSum(field, i + 1)

Vector(s) == [k \in 1..NumFields(s) |-> PlaceSum(Field(s, k), 1)]

\* a is before b: they agree up to a place where a has ended or holds the
\* smaller number.
Before(a, b) ==
  \E k \in 1..Len(b) :
    /\ \A j \in 1..(k - 1) : j <= Len(a) /\ a[j] = b[j]
    /\ (k > Len(a) \/ a[k] < b[k])

\* s is before t as Python strings, by code points.
StrBefore(s, t) ==
  \E k \in 1..Len(t) :
    /\ \A j \in 1..(k - 1) : j <= Len(s) /\ s[j] = t[j]
    /\ (k > Len(s) \/ Ord(s[k]) < Ord(t[k]))

-----------------------------------------------------------------------------
(* C1: CheckDependencies returns False if and only if at least one of its  *)
(* _CheckPythonModule calls or its _CheckSQLite3 call returned a failure   *)
(* outcome, and check_result, once False, never becomes True again.        *)
C1_FalseIffSomeFailure ==
  /\ [](Returned =>
          (check_result = FALSE <=> \E i \in 1..Len(calls) : Failed(i)))
  /\ [][check_result = FALSE => check_result' = FALSE]_vars

\* A run that returned False although the call after the failed one
\* succeeded.
C1_Witness ==
  /\ Returned /\ check_result = FALSE
  /\ \E i \in 1..Len(calls) :
       /\ Failed(i)
       /\ \A j \in (i + 1)..Len(calls) : calls[j].ret
       /\ i < Len(calls)

-----------------------------------------------------------------------------
(* C2 as stated: CheckDependencies returns True if and only if every check *)
(* of a requirement with is_required=True and the SQLite check succeeded;  *)
(* the checks of the optional requirements do not change the result.       *)
C2_Original ==
  Returned =>
    (check_result <=>
       \A i \in 1..Len(calls) : calls[i].is_required => calls[i].ret)

(* C2 as amended: CheckDependencies returns True if and only if every      *)
(* module is either optional and absent, or present and passing its check  *)
(* (and the SQLite check passed): an absent optional module does not       *)
(* change the result, an optional module that is present with a version    *)
(* outside the bounds or undeterminable makes it False.                    *)
C2_OptionalOnlyWhenAbsent ==
  Returned =>
    (check_result <=>
       \A i \in 1..Len(calls) :
         \/ ~calls[i].is_required /\ calls[i].status = "OPTIONAL_MISSING"
         \/ calls[i].status \in {"OK", "OK_WITH_VERSION"})

\* A run that returned False with every required check passed, an optional
\* module being present and too old, and another optional module absent.
C2_Witness ==
  /\ Returned /\ check_result = FALSE
  /\ \A i \in 1..Len(calls) : calls[i].is_required => calls[i].ret
  /\ \E i \in 1..Len(calls) :
       ~calls[i].is_required /\ calls[i].status = "FAILURE_VERSION_TOO_OLD"
  /\ \E i \in 1..Len(calls) : calls[i].status = "OPTIONAL_MISSING"

-----------------------------------------------------------------------------
(* C3: every _CheckPythonModule and _CheckSQLite3 call that returns a      *)
(* failure outcome has printed exactly one [FAILURE] line naming the       *)
(* module, whatever verbose_output is.                                     *)
C3_FailureAlwaysPrinted ==
  (LastIsCheck /\ last.exc = "" /\ last.status \in FailureStatuses) =>
     /\ Len(last.lines) = 1
     /\ last.lines[1].tag = "FAILURE"
     /\ last.lines[1].module = last.probed[Len(last.probed)]

-----------------------------------------------------------------------------
\* The [OPTIONAL] lines of the calls of cs, in order.
RECURSIVE OptionalLines(_)
OptionalLines(cs) ==
  IF cs = <<>> THEN <<>>
  ELSE (IF Head(cs).status = "OPTIONAL_MISSING"
        THEN <<Line("OPTIONAL", "missing", Head(cs).module_name)>>
        ELSE <<>>) \o OptionalLines(Tail(cs))

(* C4 as stated: with verbose_output False no call that returns a success  *)
(* outcome (OK, OK_WITH_VERSION or OPTIONAL_MISSING) prints a line, and    *)
(* when every check passed the output after the header is the [OK] line    *)
(* and the blank line.                                                     *)
C4_Original ==
  /\ (LastIsCheck /\ last.exc = "" /\ last.status \in SuccessStatuses
        /\ ~args.verbose_output) => last.lines = <<>>
  /\ (Returned /\ check_result /\ ~args.verbose_output) =>
        out = <<Header, Summary, Blank>>

(* C4 as amended: a call that returns OK or OK_WITH_VERSION prints its     *)
(* line exactly when verbose_output is True; a call that returns           *)
(* OPTIONAL_MISSING prints its [OPTIONAL] line whatever verbose_output is; *)
(* with verbose_output False and every check passed the output after the   *)
(* header is the [OPTIONAL] lines of the absent optional modules, the [OK] *)
(* line and the blank line.                                                *)
C4_SuccessLines ==
  /\ (LastIsCheck /\ last.exc = "" /\ last.status \in {"OK", "OK_WITH_VERSION"})
       => /\ ~args.verbose_output => last.lines = <<>>
          /\ args.verbose_output =>
               /\ Len(last.lines) = 1
               /\ last.lines[1].tag = "OK"
               /\ last.lines[1].module = last.probed[Len(last.probed)]
  /\ (LastIsCheck /\ last.exc = "" /\ last.status = "OPTIONAL_MISSING")
       => last.lines = <<Line("OPTIONAL", "missing", last.inputs.module_name)>>
  /\ (Returned /\ check_result /\ ~args.verbose_output) =>
        out = <<Header>> \o OptionalLines(calls) \o <<Summary, Blank>>

\* A quiet run in which every check passed, one module present and one
\* optional module absent.
C4_Witness ==
  /\ Returned /\ check_result /\ ~args.verbose_output
  /\ \E i \in 1..Len(calls) : calls[i].status = "OPTIONAL_MISSING"
  /\ \E i \in 1..Len(calls) :
       calls[i].fn = "_CheckPythonModule" /\ calls[i].status = "OK_WITH_VERSION"

-----------------------------------------------------------------------------
\* The number of leading names of the chain that module_object and the
\* modules below it hold as attributes.
RECURSIVE LinksPresent(_, _)
LinksPresent(module_object, names) ==
  IF names = <<>> \/ module_object.kind # "module" THEN 0
  ELSE IF Head(names) \notin DOMAIN module_object.attrs THEN 0
  ELSE 1 + LinksPresent(module_object.attrs[Head(names)], Tail(names))

\* The names of a dotted module name after the first.
Submodules(module_name) == Tail(Split(module_name, {"."}))

\* The environment holds no module module_name: importing it is an
\* ImportError, or a link of its chain of submodules is missing (a name
\* that every object has as an attribute is never missing).
Absent(module_name, sys) ==
  \/ sys[module_name].exc = "ImportError"
  \/ /\ sys[module_name].exc = ""
     /\ LET present == LinksPresent(sys[module_name].module,
                                    Submodules(module_name))
        IN /\ present < Len(Submodules(module_name))
           /\ Submodules(module_name)[present + 1] \notin ObjectAttrs

\* The environment holds the module module_name.
Present(module_name, sys) ==
  /\ sys[module_name].exc = ""
  /\ LinksPresent(sys[module_name].module, Submodules(module_name))
       = Len(Submodules(module_name))

\* A call of _CheckPythonModule on its own has ended.
CheckedAlone == entry = "_CheckPythonModule" /\ pc # "start"

\* The version value the module of the call holds under the version
\* attribute of the call.
VersionRead ==
  ExtractVersion(
    GetAttrChain(last.inputs.sys[last.inputs.module_name].module,
                 Submodules(last.inputs.module_name)),
    last.inputs.version_attribute_name.s)

\* The module is present, the attribute name and the minimum version are
\* not empty, and the module holds a version.
VersionChecked ==
  /\ CheckedAlone
  /\ Present(last.inputs.module_name, last.inputs.sys)
  /\ last.inputs.version_attribute_name.s # <<>>
  /\ last.inputs.minimum_version.s # <<>>
  /\ VersionRead.exc = ""
  /\ Truthy(VersionRead.value)

MaximumDeclared == Truthy(last.inputs.maximum_version)

\* The version and the declared bounds all split into integers.
IntegerVersions ==
  /\ VersionChecked
  /\ IntegerDotted(Format(VersionRead.value))
  /\ IntegerDotted(last.inputs.minimum_version.s)
  /\ MaximumDeclared => IntegerDotted(last.inputs.maximum_version.s)

(* C5: for a present module with a version v and bounds that split into    *)
(* integers, _CheckPythonModule compares the integer vectors place by      *)
(* place, a proper prefix being smaller: FAILURE_VERSION_TOO_OLD iff       *)
(* v < minimum, FAILURE_VERSION_TOO_NEW iff v >= minimum, a maximum is     *)
(* declared and v > maximum, success otherwise; v equal to either bound is *)
(* success; and 3.7.8 < 3.10.0.                                            *)
C5_NumericComparison ==
  /\ IntegerVersions =>
       LET v == Vector(Format(VersionRead.value))
           minimum == Vector(last.inputs.minimum_version.s)
           too_old == Before(v, minimum)
           too_new == /\ ~too_old
                      /\ MaximumDeclared
                      /\ Before(Vector(last.inputs.maximum_version.s), v)
       IN /\ last.exc = ""
          /\ last.status = "FAILURE_VERSION_TOO_OLD" <=> too_old
          /\ last.status = "FAILURE_VERSION_TOO_NEW" <=> too_new
          /\ last.status = "OK_WITH_VERSION" <=> ~too_old /\ ~too_new
          /\ last.ret <=> ~too_old /\ ~too_new
  /\ ListLess(VersionMap(SQLiteMinimumVersion).value,
              VersionMap(<<"3", ".", "1", "0", ".", "0">>).value)

\* An optional module whose version equals the minimum and the maximum,
\* written with another separator, and passes.
C5_Witness ==
  /\ IntegerVersions
  /\ ~last.inputs.is_required
  /\ MaximumDeclared
  /\ Format(VersionRead.value) # last.inputs.minimum_version.s
  /\ Vector(Format(VersionRead.value)) = Vector(last.inputs.minimum_version.s)
  /\ Vector(Format(VersionRead.value)) = Vector(last.inputs.maximum_version.s)
  /\ last.status = "OK_WITH_VERSION"

-----------------------------------------------------------------------------
(* C6: when the module is absent _CheckPythonModule returns                *)
(* OPTIONAL_MISSING (a success) if is_required is False and                *)
(* FAILURE_MISSING if it is True, whatever the attribute name and the      *)
(* bounds are, and reads and converts no version.                          *)
C6_AbsentModule ==
  (CheckedAlone /\ Absent(last.inputs.module_name, last.inputs.sys)) =>
     /\ last.exc = ""
     /\ ~last.inputs.is_required =>
          last.status = "OPTIONAL_MISSING" /\ last.ret
     /\ last.inputs.is_required =>
          last.status = "FAILURE_MISSING" /\ ~last.ret
     /\ last.extracted = <<>>
     /\ last.parsed = <<>>

\* An optional module whose submodule is missing, checked with a version
\* attribute and a minimum version that is no integer version.
C6_Witness ==
  /\ CheckedAlone
  /\ last.inputs.sys[last.inputs.module_name].exc = ""
  /\ Absent(last.inputs.module_name, last.inputs.sys)
  /\ ~last.inputs.is_required
  /\ last.inputs.version_attribute_name.s # <<>>
  /\ ~IntegerDotted(last.inputs.minimum_version.s)
  /\ last.status = "OPTIONAL_MISSING"

-----------------------------------------------------------------------------
\* A call of _ImportPythonModule on its own has ended.
ImportedAlone == entry = "_ImportPythonModule" /\ pc # "start"

\* A name of the chain after the first missing link is an attribute of None.
NoneAttributeAfterGap(module_name, sys) ==
  \E k \in 1..Len(Submodules(module_name)) :
    /\ k > LinksPresent(sys[module_name].module, Submodules(module_name)) + 1
    /\ Submodules(module_name)[k] \in ObjectAttrs

-----------------------------------------------------------------------------
\* A call of _CheckSQLite3 on its own has ended.
SQLiteCheckedAlone == entry = "_CheckSQLite3" /\ pc # "start"

\* The sqlite_version the first candidate holds, None when it has none.
FirstVersion ==
  GetAttr(last.inputs.sys[pysqlite2_dbapi2].module.attrs[<<"d", "b", "a", "p", "i", "2">>],
          sqlite_version)

\* The elements of a sequence.
Range(seq) == { seq[i] : i \in 1..Len(seq) }

(* C8: in _CheckSQLite3 sqlite3 is imported only when pysqlite2.dbapi2 is  *)
(* absent; a present pysqlite2.dbapi2 that meets 3.7.8 passes without      *)
(* sqlite3 being imported, one that is too old or holds no version fails   *)
(* without falling back; the outcome is decided from one candidate.        *)
C8_FirstCandidateDecides ==
  SQLiteCheckedAlone =>
    /\ sqlite3 \in Range(last.probed)
         <=> Absent(pysqlite2_dbapi2, last.inputs.sys)
    /\ \A i \in 1..Len(last.lines) :
         last.lines[i].module = last.probed[Len(last.probed)]
    /\ Absent(pysqlite2_dbapi2, last.inputs.sys) =>
         /\ last.probed = <<pysqlite2_dbapi2, sqlite3>>
         /\ Absent(sqlite3, last.inputs.sys) =>
              last.status = "FAILURE_MISSING"
    /\ Present(pysqlite2_dbapi2, last.inputs.sys) =>
         /\ last.probed = <<pysqlite2_dbapi2, pysqlite2_dbapi2>>
         /\ ~Truthy(FirstVersion) =>
              last.exc = "" /\ ~last.ret
                /\ last.status = "FAILURE_VERSION_UNDETERMINED"
         /\ (FirstVersion.kind = "str" /\ IntegerDotted(FirstVersion.s)) =>
              /\ last.exc = ""
              /\ last.ret <=> ~Before(Vector(FirstVersion.s), <<3, 7, 8>>)
              /\ ~last.ret => last.status = "FAILURE_VERSION_TOO_OLD"

\* pysqlite2.dbapi2 is present at 3.10.0 and sqlite3 at 3.7.7: the check
\* passes and sqlite3 was not imported.
C8_Witness ==
  /\ SQLiteCheckedAlone
  /\ Present(pysqlite2_dbapi2, last.inputs.sys)
  /\ FirstVersion = StrValue(<<"3", ".", "1", "0", ".", "0">>)
  /\ Present(sqlite3, last.inputs.sys)
  /\ GetAttr(last.inputs.sys[sqlite3].module, sqlite_version)
       = StrValue(<<"3", ".", "7", ".", "7">>)
  /\ last.ret
  /\ sqlite3 \notin Range(last.probed)

-----------------------------------------------------------------------------
(* C9: a version string with a token that is no integer (an empty token    *)
(* included) is not recovered into an outcome: the conversion raises       *)
(* ValueError, the call returns no outcome and prints nothing, and         *)
(* CheckDependencies ends there, returning nothing and making no later     *)
(* call.                                                                   *)
C9_MalformedVersionAborts ==
  /\ (LastIsCheck /\ \E i \in 1..Len(last.parsed) :
                       ~IntegerDotted(last.parsed[i])) =>
       /\ last.exc = "ValueError"
       /\ last.status = "NONE"
       /\ last.lines = <<>>
       /\ pc = "raised"
  /\ VersionChecked =>
       /\ (~IntegerDotted(Format(VersionRead.value))
             \/ ~IntegerDotted(last.inputs.minimum_version.s))
            => last.exc = "ValueError"
       /\ (/\ IntegerDotted(Format(VersionRead.value))
           /\ IntegerDotted(last.inputs.minimum_version.s)
           /\ ~Before(Vector(Format(VersionRead.value)),
                      Vector(last.inputs.minimum_version.s))
           /\ MaximumDeclared
           /\ ~IntegerDotted(last.inputs.maximum_version.s))
            => last.exc = "ValueError"
  /\ entry = "CheckDependencies" =>
       /\ \A i \in 1..(Len(calls) - 1) : calls[i].exc = ""
       /\ (\E i \in 1..Len(calls) : calls[i].exc # "") =>
            /\ pc = "raised"
            /\ Blank \notin Range(out)
            /\ Summary \notin Range(out)

\* CheckDependencies ended in the ValueError of the first of two
\* requirements: the second and _CheckSQLite3 were not called.
C9_Witness ==
  /\ entry = "CheckDependencies" /\ pc = "raised"
  /\ Len(items) = 2 /\ Len(calls) = 1
  /\ last.exc = "ValueError"
  /\ \E i \in 1..Len(last.parsed) : ~IntegerDotted(last.parsed[i])

-----------------------------------------------------------------------------
\* The calls of _CheckPythonModule among calls.
ModuleCalls == { i \in 1..Len(calls) : calls[i].fn = "_CheckPythonModule" }

SQLiteCalls == { i \in 1..Len(calls) : calls[i].fn = "_CheckSQLite3" }

(* C10: in a run of CheckDependencies that does not raise, the             *)
(* requirements are checked one at a time in ascending order of module     *)
(* name, each exactly once even after an earlier one failed, and           *)
(* _CheckSQLite3 is called exactly once, after the last requirement and    *)
(* before the summary and the blank line.                                  *)
C10_SortedOnceThenSQLite ==
  entry = "CheckDependencies" =>
    /\ \A i \in ModuleCalls, j \in ModuleCalls :
         i < j => StrBefore(calls[i].module_name, calls[j].module_name)
    /\ { calls[i].module_name : i \in ModuleCalls }
         \subseteq args.PYTHON_DEPENDENCIES
    /\ \A i \in SQLiteCalls :
         /\ i = Len(calls)
         /\ { calls[j].module_name : j \in ModuleCalls }
              = args.PYTHON_DEPENDENCIES
         /\ Cardinality(ModuleCalls) = Cardinality(args.PYTHON_DEPENDENCIES)
    /\ pc \in {"summary", "done"} => Cardinality(SQLiteCalls) = 1
    /\ (Blank \in Range(out) \/ Summary \in Range(out)) =>
         pc = "done" /\ Cardinality(SQLiteCalls) = 1
    /\ pc = "done" => out[Len(out)] = Blank

\* A finished run of two requirements in which the first failed and the
\* second and _CheckSQLite3 were still called.
C10_Witness ==
  /\ Returned
  /\ Len(calls) = 3
  /\ Failed(1)
  /\ calls[2].fn = "_CheckPythonModule" /\ calls[2].ret
  /\ calls[3].fn = "_CheckSQLite3"

====
